---- MODULE Spec2Model ----
(***************************************************************************)
(* Model of log_analyzer.py: the lookup-table loader, the flow-log parser, *)
(* the report writer and main, which runs them in sequence.                *)
(*                                                                         *)
(* A Python dict is a sequence of <<key, value>> pairs with unique keys in *)
(* insertion order (the order dict.items() iterates in), except the lookup *)
(* table, which is only ever read by key and tested for emptiness and is a *)
(* TLA+ function from keys to tags.  A file is a record: whether open()    *)
(* finds it, and its rows (each row the sequence of fields that csv.reader *)
(* or str.split() makes of it).  Report rows hold the count as the integer *)
(* csv.writer renders.                                                     *)
(***************************************************************************)
EXTENDS Integers, Sequences, FiniteSets, TLC

VARIABLES lookupFile, logFile, pc, lookup_table, i, tag_counts,
          port_protocol_counts, raised, result, report, logs, exit

vars == <<lookupFile, logFile, pc, lookup_table, i, tag_counts,
          port_protocol_counts, raised, result, report, logs, exit>>

\* ------------------------------------------------------------------ bounds
MaxRows == 2
MaxLines == 3
MaxCount == 3

\* ----------------------------------------------------------- dict helpers
Keys(d) == {d[j][1] : j \in 1..Len(d)}

\* d.get(k, default)
Get(d, k, default) ==
    IF k \in Keys(d) THEN d[CHOOSE j \in 1..Len(d) : d[j][1] = k][2] ELSE default

\* variant: d[k] = 1
Inc_Overwrite(d, k) ==
    IF k \in Keys(d)
    THEN [j \in 1..Len(d) |-> IF d[j][1] = k THEN <<k, 1>> ELSE d[j]]
    ELSE Append(d, <<k, 1>>)

\* defaultdict(int): d[k] += 1 (a new key is appended with count 1)
Inc(d, k) ==
    IF k \in Keys(d)
    THEN [j \in 1..Len(d) |-> IF d[j][1] = k THEN <<k, d[j][2] + 1>> ELSE d[j]]
    ELSE Append(d, <<k, 1>>)

RECURSIVE SumCounts(_)
SumCounts(d) == IF d = <<>> THEN 0 ELSE Head(d)[2] + SumCounts(Tail(d))

RECURSIVE SeqsUpTo(_, _)
SeqsUpTo(S, n) ==
    IF n = 0 THEN {<<>>}
    ELSE LET shorter == SeqsUpTo(S, n - 1)
         IN  shorter \cup {Append(s, x) : s \in shorter, x \in S}

\* ------------------------------------------------------ protocol resolver
protocol_map ==
    [c \in {"1", "2", "6", "17", "41", "47", "50", "51", "58", "89", "132"} |->
        CASE c = "1"   -> "icmp"
          [] c = "2"   -> "igmp"
          [] c = "6"   -> "tcp"
          [] c = "17"  -> "udp"
          [] c = "41"  -> "ipv6-encapsulation"
          [] c = "47"  -> "gre"
          [] c = "50"  -> "esp"
          [] c = "51"  -> "ah"
          [] c = "58"  -> "icmpv6"
          [] c = "89"  -> "ospf"
          [] c = "132" -> "sctp"]

\* variant: protocol_map.get(protocol_code, protocol_code)
resolve_PassThrough(protocol_code) ==
    IF protocol_code \in DOMAIN protocol_map
    THEN protocol_map[protocol_code] ELSE protocol_code

\* protocol_map.get(protocol_code, "unknown")
resolve(protocol_code) ==
    IF protocol_code \in DOMAIN protocol_map
    THEN protocol_map[protocol_code] ELSE "unknown"

\* str.lower() on the protocol spellings that occur
lower(s) ==
    CASE s = "TCP" -> "tcp"
      [] s = "Tcp" -> "tcp"
      [] s = "UDP" -> "udp"
      [] OTHER -> s

\* ----------------------------------------------------------------- inputs
Header == <<"destination_port", "protocol", "tag">>

LookupRows ==
    { <<"80", "tcp", "web">>, <<"80", "TCP", "email">>,
      <<"25", "tcp", "email">>, <<"80", "tcp">> }

LookupFiles ==
    { [exists |-> FALSE, rows |-> <<>>], [exists |-> TRUE, rows |-> <<>>] }
    \cup { [exists |-> TRUE, rows |-> <<Header>> \o rs] :
             rs \in SeqsUpTo(LookupRows, MaxRows) }

Line(version, dstport, protocol_code) ==
    << version, "123456789012", "eni-a1b2", "10.0.1.2", "198.51.100.7",
       dstport, "49152", protocol_code, "10", "1000", "1620140761",
       "1620140762", "ACCEPT", "OK" >>

LogLines ==
    { Line("2", "80", "6"), Line("2", "25", "6"), Line("2", "80", "999"),
      Line("2", "80", "17"), Line("3", "80", "6"),
      <<>>,
      <<"2", "123456789012", "eni-a1b2", "10.0.1.2", "198.51.100.7", "80", "49152">> }

LogFiles ==
    { [exists |-> FALSE, rows |-> <<>>] }
    \cup { [exists |-> TRUE, rows |-> ls] : ls \in SeqsUpTo(LogLines, MaxLines) }

EmptyTable == [k \in {} |-> "Untagged"]
NoResult == [returned |-> FALSE, tag_counts |-> <<>>, port_protocol_counts |-> <<>>]
NoReport == [written |-> FALSE, rows |-> <<>>]

\* --------------------------------------------------------- load_lookup_table
\* variant: lookup_table.setdefault((dstport, protocol.lower()), tag)
LoadRow_KeepFirst(table, row) ==
    LET key == <<row[1], lower(row[2])>>
    IN  IF key \in DOMAIN table THEN table
        ELSE [k \in DOMAIN table \cup {key} |-> IF k = key THEN row[3] ELSE table[k]]

\* lookup_table[(dstport, protocol.lower())] = tag
LoadRow(table, row) ==
    LET key == <<row[1], lower(row[2])>>
    IN  [k \in DOMAIN table \cup {key} |-> IF k = key THEN row[3] ELSE table[k]]

\* for dstport, protocol, tag in reader: a row that does not unpack into three
\* names raises, which ends the loop with the rows before it already stored
RECURSIVE LoadRows(_, _)
LoadRows(rows, table) ==
    IF rows = <<>> THEN [table |-> table, ok |-> TRUE]
    ELSE IF Len(Head(rows)) # 3 THEN [table |-> table, ok |-> FALSE]
    ELSE LoadRows(Tail(rows), LoadRow(table, Head(rows)))

load_lookup_table(file) ==
    IF ~file.exists
    THEN [table |-> EmptyTable, log |-> "ERROR Could not find the file"]
    ELSE IF file.rows = <<>>   \* next(reader) on an empty file raises StopIteration
    THEN [table |-> EmptyTable, log |-> "ERROR Error occurred while loading lookup table"]
    ELSE LET r == LoadRows(Tail(file.rows), EmptyTable)
         IN  IF r.ok
             THEN [table |-> r.table, log |-> "INFO Lookup table successfully loaded."]
             ELSE [table |-> r.table,
                   log |-> "ERROR Error occurred while loading lookup table"]

\* ------------------------------------------------------------------- state
Init ==
    /\ lookupFile \in LookupFiles
    /\ logFile \in LogFiles
    /\ pc = "load"
    /\ lookup_table = EmptyTable
    /\ i = 0
    /\ tag_counts = <<>>
    /\ port_protocol_counts = <<>>
    /\ raised = "none"
    /\ result = NoResult
    /\ report = NoReport
    /\ logs = <<>>
    /\ exit = "running"

\* lookup_table = load_lookup_table(lookup_table_file); if lookup_table: ...
MainLoad ==
    /\ pc = "load"
    /\ LET r == load_lookup_table(lookupFile)
       IN  /\ lookup_table' = r.table
           /\ logs' = Append(logs, r.log)
           /\ IF DOMAIN r.table # {}
              THEN pc' = "open" /\ exit' = exit
              ELSE pc' = "done" /\ exit' = "returned"
    /\ UNCHANGED <<lookupFile, logFile, i, tag_counts, port_protocol_counts,
                   raised, result, report>>

\* ---------------------------------------------------------- parse_flow_logs
\* with open(log_filename, 'r'): a missing file is logged and the empty
\* aggregates are returned; otherwise the loop starts at the first line
ParseOpen ==
    /\ pc = "open"
    /\ IF ~logFile.exists
       THEN /\ logs' = Append(logs, "ERROR Could not find the file")
            /\ result' = [returned |-> TRUE, tag_counts |-> tag_counts,
                          port_protocol_counts |-> port_protocol_counts]
            /\ pc' = "save"
            /\ i' = i
       ELSE /\ pc' = "parse"
            /\ i' = 1
            /\ UNCHANGED <<logs, result>>
    /\ UNCHANGED <<lookupFile, logFile, lookup_table, tag_counts,
                   port_protocol_counts, raised, report, exit>>

\* variant: no version check
LineStatus_NoVersionCheck(fields) ==
    IF Len(fields) < 8 THEN "IndexError" ELSE "ok"

\* what the body of the loop does with one line's fields: fields[0] of a blank
\* line, fields[5] and fields[7] of a short one raise IndexError; a first field
\* other than "2" raises ValueError
LineStatus(fields) ==
    IF Len(fields) = 0 THEN "IndexError"
    ELSE IF fields[1] # "2" THEN "ValueError"
    ELSE IF Len(fields) < 8 THEN "IndexError"
    ELSE "ok"

\* tag = lookup_table.get((dstport, protocol), "Untagged")
TagOf(table, dstport, protocol) ==
    IF <<dstport, protocol>> \in DOMAIN table
    THEN table[<<dstport, protocol>>] ELSE "Untagged"

\* one iteration of "for line in logfile"
ParseLine ==
    /\ pc = "parse"
    /\ i <= Len(logFile.rows)
    /\ LET fields == logFile.rows[i]
           status == LineStatus(fields)
       IN  IF status = "ok"
           THEN LET dstport == fields[5 + 1]
                    protocol_code == fields[7 + 1]
                    protocol == resolve(protocol_code)
                    tag == TagOf(lookup_table, dstport, protocol)
                IN  /\ tag_counts' = Inc(tag_counts, tag)
                    /\ port_protocol_counts' =
                           Inc(port_protocol_counts, <<dstport, protocol>>)
                    /\ i' = i + 1
                    /\ UNCHANGED <<pc, raised, logs>>
           ELSE /\ raised' = status
                /\ pc' = "except"
                /\ logs' = IF status = "ValueError"
                           THEN logs \o <<"ERROR Unsupported version",
                                          "ERROR Error while processing flow logs">>
                           ELSE Append(logs, "ERROR Error while processing flow logs")
                /\ UNCHANGED <<i, tag_counts, port_protocol_counts>>
    /\ UNCHANGED <<lookupFile, logFile, lookup_table, result, report, exit>>

\* the loop is exhausted: return tag_counts, port_protocol_counts
ParseReturn ==
    /\ pc = "parse"
    /\ i > Len(logFile.rows)
    /\ logs' = Append(logs, "INFO Flow logs processed successfully.")
    /\ result' = [returned |-> TRUE, tag_counts |-> tag_counts,
                  port_protocol_counts |-> port_protocol_counts]
    /\ pc' = "save"
    /\ UNCHANGED <<lookupFile, logFile, lookup_table, i, tag_counts,
                   port_protocol_counts, raised, report, exit>>

\* ------------------------------------------------------------- save_results
\* x goes after every row whose count is at least its own: equal counts keep
\* their order, as sorted(..., reverse=True) keeps them
RECURSIVE InsertDesc(_, _)
InsertDesc(s, x) ==
    IF s = <<>> THEN <<x>>
    ELSE IF Head(s)[2] >= x[2] THEN <<Head(s)>> \o InsertDesc(Tail(s), x)
    ELSE <<x>> \o s

RECURSIVE SortDesc(_)
SortDesc(s) ==
    IF s = <<>> THEN <<>>
    ELSE InsertDesc(SortDesc(SubSeq(s, 1, Len(s) - 1)), s[Len(s)])

RECURSIVE NotUntagged(_)
NotUntagged(d) ==
    IF d = <<>> THEN <<>>
    ELSE IF Head(d)[1] # "Untagged" THEN <<Head(d)>> \o NotUntagged(Tail(d))
    ELSE NotUntagged(Tail(d))

\* variant: the rows in dict order, not sorted
sorted_tags_Unsorted(tc) == NotUntagged(tc)

sorted_tags(tc) == SortDesc(NotUntagged(tc))

save_results(tc, ppc) ==
    LET untagged_count == Get(tc, "Untagged", 0)
    IN  << <<"Tag Counts">>, <<"Tag", "Count">> >>
        \o sorted_tags(tc)
        \o (IF untagged_count > 0 THEN << <<"Untagged", untagged_count>> >> ELSE <<>>)
        \o << <<>>, <<"Port/Protocol Combination Counts">>,
              <<"Port", "Protocol", "Count">> >>
        \o [j \in 1..Len(ppc) |-> <<ppc[j][1][1], ppc[j][1][2], ppc[j][2]>>]

\* --------------------------------------------------------------------- main
\* save_results(tag_counts, port_protocol_counts, output_file)
MainSave ==
    /\ pc = "save"
    /\ report' = [written |-> TRUE,
                  rows |-> save_results(result.tag_counts, result.port_protocol_counts)]
    /\ logs' = Append(logs, "INFO Results successfully saved.")
    /\ pc' = "done"
    /\ exit' = "returned"
    /\ UNCHANGED <<lookupFile, logFile, lookup_table, i, tag_counts,
                   port_protocol_counts, raised, result>>

\* variant: the handler goes on to save_results
MainCatch_SaveAnyway ==
    /\ pc = "except"
    /\ raised = "ValueError"
    /\ logs' = Append(logs, "ERROR Processing halted due to error")
    /\ pc' = "save"
    /\ UNCHANGED <<lookupFile, logFile, lookup_table, i, tag_counts,
                   port_protocol_counts, raised, result, report, exit>>

\* except ValueError as e: logging.error(...), and main returns
MainCatch ==
    /\ pc = "except"
    /\ raised = "ValueError"
    /\ logs' = Append(logs, "ERROR Processing halted due to error")
    /\ pc' = "done"
    /\ exit' = "returned"
    /\ UNCHANGED <<lookupFile, logFile, lookup_table, i, tag_counts,
                   port_protocol_counts, raised, result, report>>

\* any other exception leaves main through the try statement uncaught
MainPropagate ==
    /\ pc = "except"
    /\ raised # "ValueError"
    /\ pc' = "done"
    /\ exit' = "uncaught"
    /\ UNCHANGED <<lookupFile, logFile, lookup_table, i, tag_counts,
                   port_protocol_counts, raised, result, report, logs>>

Next ==
    \/ MainLoad
    \/ ParseOpen
    \/ ParseLine
    \/ ParseReturn
    \/ MainSave
    \/ MainCatch
    \/ MainPropagate

Spec == Init /\ [][Next]_vars

\* --------------------------------------------- save_results called directly
Tags == {"web", "ssh", "email", "Untagged"}

\* every dict over Tags: distinct keys in any insertion order, counts 0..MaxCount
RECURSIVE TagDicts(_)
TagDicts(n) ==
    IF n = 0 THEN {<<>>}
    ELSE LET shorter == TagDicts(n - 1)
         IN  shorter \cup
             { Append(d, <<t, c>>) :
                 d \in {e \in shorter : Len(e) = n - 1},
                 t \in Tags, c \in 0..MaxCount }

UniqueKeys(d) == \A j, k \in 1..Len(d) : d[j][1] = d[k][1] => j = k

InitSave ==
    /\ lookupFile = [exists |-> TRUE, rows |-> <<Header, <<"80", "tcp", "web">>>>]
    /\ logFile = [exists |-> TRUE, rows |-> <<>>]
    /\ pc = "save"
    /\ lookup_table = LoadRow(EmptyTable, <<"80", "tcp", "web">>)
    /\ i = 1
    /\ tag_counts = <<>>
    /\ port_protocol_counts = <<>>
    /\ raised = "none"
    /\ \E tc \in {d \in TagDicts(Cardinality(Tags)) : UniqueKeys(d)},
          ppc \in {<<>>, << <<<<"80", "tcp">>, 1>> >>} :
          result = [returned |-> TRUE, tag_counts |-> tc, port_protocol_counts |-> ppc]
    /\ report = NoReport
    /\ logs = <<>>
    /\ exit = "running"

NextSave == MainSave

SpecSave == InitSave /\ [][NextSave]_vars

\* ================================================================== claims
Rows == logFile.rows

\* exactly one entry of the dict went up by 1 and no other entry changed
ExactlyOneInc(d, e) ==
    \E k \in Keys(e) :
        /\ Get(e, k, 0) = Get(d, k, 0) + 1
        /\ \A o \in (Keys(d) \cup Keys(e)) \ {k} : Get(e, o, 0) = Get(d, o, 0)
        /\ Keys(d) \subseteq Keys(e)

\* C1: every record processed without error increments exactly one TagCounts
\* entry and exactly one PortProtocolCounts entry by 1, and when a parse of an
\* existing log completes, both sums equal the number of lines of the log.
C1_OneIncrementPerRecord ==
    /\ [][ (pc = "parse" /\ i' = i + 1) =>
             /\ ExactlyOneInc(tag_counts, tag_counts')
             /\ ExactlyOneInc(port_protocol_counts, port_protocol_counts') ]_vars
    /\ [](result.returned /\ logFile.exists =>
             /\ SumCounts(result.tag_counts) = Len(Rows)
             /\ SumCounts(result.port_protocol_counts) = Len(Rows))

C1_Witness ==
    /\ result.returned
    /\ Len(Rows) >= 3
    /\ Len(result.tag_counts) = 2
    /\ Len(result.port_protocol_counts) = 2

\* the lines whose first field exists and is not "2"
BadVersionLines == {k \in 1..Len(Rows) : Len(Rows[k]) > 0 /\ Rows[k][1] # "2"}

\* C2: if a line has a first field other than "2", the parse never goes past
\* that line, never returns aggregates to its caller, and when it stops at that
\* line it stops with the version error.
C2_BadVersionAborts ==
    \A k \in BadVersionLines :
        /\ i <= k
        /\ ~result.returned
        /\ (i = k /\ pc \in {"except", "done"}) => raised = "ValueError"

C2_Witness ==
    /\ raised = "ValueError"
    /\ pc = "done"
    /\ i = 2
    /\ SumCounts(tag_counts) = 1
    /\ Len(Rows) > i
    /\ LineStatus(Rows[i + 1]) = "ok"

\* C3: once the parser has aborted mid-pass (version error or short line),
\* save_results is not called and no report is written in that run.
C3_NoReportAfterAbort ==
    raised # "none" =>
        /\ pc \in {"except", "done"}
        /\ ~report.written
        /\ ~result.returned

C3_Witness ==
    /\ raised = "IndexError"
    /\ pc = "done"
    /\ tag_counts # <<>>
    /\ ~report.written

\* the protocol names of the static table, "unknown" for every other code
IanaName(c) ==
    CASE c = "1" -> "icmp" [] c = "2" -> "igmp" [] c = "6" -> "tcp"
      [] c = "17" -> "udp" [] c = "41" -> "ipv6-encapsulation"
      [] c = "47" -> "gre" [] c = "50" -> "esp" [] c = "51" -> "ah"
      [] c = "58" -> "icmpv6" [] c = "89" -> "ospf" [] c = "132" -> "sctp"
      [] OTHER -> "unknown"

\* C4: a record with version "2" and at least 8 fields is processed without
\* error whatever its protocol code; the tag counted for it is the lookup
\* table's tag for (port, protocol name) when that key is present and
\* "Untagged" otherwise, and the PortProtocolCounts key counted is
\* (port, protocol name), the name being "unknown" for an unmapped code.
C4_TagAndKeyCounted ==
    [][ (pc = "parse" /\ i <= Len(Rows) /\ Len(Rows[i]) >= 8 /\ Rows[i][1] = "2") =>
          LET p    == Rows[i][6]
              name == IanaName(Rows[i][8])
              tag  == IF <<p, name>> \in DOMAIN lookup_table
                      THEN lookup_table[<<p, name>>] ELSE "Untagged"
          IN  /\ i' = i + 1
              /\ raised' = "none"
              /\ Get(tag_counts', tag, 0) = Get(tag_counts, tag, 0) + 1
              /\ Get(port_protocol_counts', <<p, name>>, 0) =
                     Get(port_protocol_counts, <<p, name>>, 0) + 1 ]_vars

C4_Witness ==
    /\ result.returned
    /\ <<"80", "tcp">> \in DOMAIN lookup_table
    /\ <<"25", "tcp">> \notin DOMAIN lookup_table
    /\ Get(result.tag_counts, "Untagged", 0) = 2
    /\ Get(result.tag_counts, lookup_table[<<"80", "tcp">>], 0) = 1
    /\ Get(result.port_protocol_counts, <<"80", "unknown">>, 0) = 1
    /\ Get(result.port_protocol_counts, <<"25", "tcp">>, 0) = 1
    /\ Get(result.port_protocol_counts, <<"80", "tcp">>, 0) = 1

\* the rows of the report between the tag header and the blank separator row
TagBlock(rows) ==
    LET b == CHOOSE j \in 1..Len(rows) :
                 Len(rows[j]) = 0 /\ \A k \in 1..(j - 1) : Len(rows[k]) # 0
    IN  SubSeq(rows, 3, b - 1)

\* C5: the tag block lists every tag other than "Untagged" exactly once with
\* its count, in non-increasing order of count, and nothing else except
\* "Untagged", which is the last row when its count is positive (whatever the
\* other counts are) and is left out when its count is 0 or the tag is absent.
C5_TagBlockOrder ==
    report.written =>
        LET tc    == result.tag_counts
            block == TagBlock(report.rows)
            u     == Get(tc, "Untagged", 0)
            named == {j \in 1..Len(block) : block[j][1] # "Untagged"}
            urows == {j \in 1..Len(block) : block[j][1] = "Untagged"}
        IN  /\ \A t \in Keys(tc) \ {"Untagged"} :
                  /\ Cardinality({j \in named : block[j][1] = t}) = 1
                  /\ \A j \in named : block[j][1] = t => block[j][2] = Get(tc, t, 0)
            /\ \A j \in named : block[j][1] \in Keys(tc)
            /\ \A j, k \in named : j < k => block[j][2] >= block[k][2]
            /\ IF u > 0
               THEN urows = {Len(block)} /\ block[Len(block)] = <<"Untagged", u>>
               ELSE urows = {}

C5_Witness ==
    /\ report.written
    /\ result.tag_counts = << <<"Untagged", 3>>, <<"ssh", 1>>, <<"web", 2>> >>
    /\ TagBlock(report.rows) = << <<"web", 2>>, <<"ssh", 1>>, <<"Untagged", 3>> >>

\* the loader failed: the file is missing or a data row has not 3 fields
LoadFailed ==
    \/ ~lookupFile.exists
    \/ \E k \in 2..Len(lookupFile.rows) : Len(lookupFile.rows[k]) # 3

\* C6: whenever the loader fails, the mapping it returns is empty and main
\* skips processing: the log is not parsed and no report is written.
C6_FailedLoadIsEmpty ==
    (LoadFailed /\ pc # "load") =>
        /\ DOMAIN lookup_table = {}
        /\ pc = "done"
        /\ i = 0
        /\ ~report.written

WellFormed ==
    /\ lookupFile.exists
    /\ Len(lookupFile.rows) >= 1
    /\ \A k \in 2..Len(lookupFile.rows) : Len(lookupFile.rows[k]) = 3

\* C7: from a well-formed source the loader returns the mapping whose keys are
\* exactly the (port, lowercased protocol) pairs of the rows after the header
\* and whose value for a key is the tag of the last row with that key; with
\* only (80,tcp,web) loaded, (80,tcp) maps to "web" and (25,tcp) is a miss, and
\* a row spelled (80,TCP,email) is stored under (80,tcp).
C7_LoaderMapping ==
    (WellFormed /\ pc # "load") =>
        LET rows == lookupFile.rows
            keyOf(k) == <<rows[k][1], lower(rows[k][2])>>
        IN  /\ DOMAIN lookup_table = {keyOf(k) : k \in 2..Len(rows)}
            /\ \A key \in DOMAIN lookup_table :
                 \E k \in 2..Len(rows) :
                    /\ keyOf(k) = key
                    /\ lookup_table[key] = rows[k][3]
                    /\ \A m \in (k + 1)..Len(rows) : keyOf(m) # key
            /\ rows = <<Header, <<"80", "tcp", "web">>>> =>
                 /\ lookup_table[<<"80", "tcp">>] = "web"
                 /\ <<"25", "tcp">> \notin DOMAIN lookup_table
            /\ rows = <<Header, <<"80", "TCP", "email">>>> =>
                 DOMAIN lookup_table = {<<"80", "tcp">>}

C7_Witness ==
    /\ pc = "open"
    /\ lookupFile.rows = <<Header, <<"80", "tcp", "web">>, <<"80", "TCP", "email">>>>
    /\ DOMAIN lookup_table = {<<"80", "tcp">>}
    /\ lookup_table[<<"80", "tcp">>] = "email"

\* C8: every error the parser raises (version error, short or blank line) is
\* caught by main; none leaves main uncaught.
C8_AllParserErrorsCaught ==
    (raised # "none" /\ pc = "done") => exit = "returned"

\* C9: when the flow log cannot be opened the run ends there: the parser hands
\* no aggregates to main, save_results is not called, no report is written.
C9_MissingLogIsTerminal ==
    (~logFile.exists /\ pc \notin {"load", "open"}) =>
        /\ ~result.returned
        /\ pc # "save"
        /\ ~report.written

\* C10: after a fatal parser error main ends with a failure outcome, never
\* with the normal return of a successful run.
C10_FatalErrorFailureSignal ==
    (raised # "none" /\ pc = "done") => exit # "returned"

====
